---- MODULE Spec2Model ----
(***************************************************************************)
(* A model of the deeptest backtesting and validation engine:              *)
(*   backtester.run_backtest, metrics.compute_performance and drawdown,    *)
(*   strategy_template.ma_cross, deep_test._year_slices / grid_search /    *)
(*   walk_forward / permutation_test / bootstrap_ci.                       *)
(*                                                                         *)
(* Floating-point values are modelled as exact rationals [n, d] in lowest  *)
(* terms with d > 0; the pandas/numpy "undefined" value NaN is the record  *)
(* with n = d = 0, an infinity the record with d = 0 and n = 1 or -1.      *)
(* Rounding is modelled in the one place where a result reaches a bound    *)
(* because of it, the subtraction of drawdown.  Bars are numbered from 1   *)
(* (the code's bar t is index t+1 here).                                   *)
(***************************************************************************)
EXTENDS Integers, Sequences, FiniteSets, TLC

VARIABLES
    pc,               \* position of the running call
    df,               \* the caller's Bar/Return table
    position,         \* the caller's position series (label -> value)
    cost,             \* CostModel passed to the call
    starting_equity,  \* starting_equity passed to the call
    result,           \* what the call returned or raised
    grid,             \* grid_search: the value lists of the grid, in key order
    gs_k,             \* grid_search: candidates of the product consumed so far
    best,             \* grid_search: the local variable best
    evaluated,        \* grid_search: the candidates evaluated so far, in order
    cfg,              \* walk_forward: the WalkForwardConfig
    train_slices,     \* walk_forward: the local variable train_slices
    wf_i,             \* walk_forward: the loop variable i (from 1)
    rows,             \* walk_forward: the local variable rows
    n_iter,           \* permutation_test, bootstrap_ci: the argument n_iter
    block,            \* permutation_test, bootstrap_ci: the argument block
    iter,             \* resampling: iterations of the outer loop completed
    stats,            \* resampling: the CAGRs collected (stats, cagr_list)
    df_work,          \* resampling: the table df_shuf / df_b of the iteration
    perm_order,       \* permutation_test: the order drawn in the iteration
    boot_parts,       \* bootstrap_ci: the segments drawn in the iteration
    total_len,        \* bootstrap_ci: the local variable total_len
    pf_equity,        \* compute_performance: the equity curve given
    scan_i,           \* compute_performance: bars of dd_is scanned so far
    dd_cur,           \* compute_performance: the local variable cur
    max_dd_days,      \* compute_performance: the local variable max_dd_days
    ma_params         \* ma_cross: the parameter mapping given

vars == <<pc, df, position, cost, starting_equity, result,
          grid, gs_k, best, evaluated, cfg, train_slices, wf_i, rows,
          n_iter, block, iter, stats, df_work, perm_order, boot_parts, total_len,
          pf_equity, scan_i, dd_cur, max_dd_days, ma_params>>

btVars == <<position, starting_equity>>
gsVars == <<grid, gs_k, best, evaluated>>
wfVars == <<cfg, train_slices, wf_i, rows>>
rsVars == <<n_iter, block, iter, stats, df_work, perm_order, boot_parts, total_len>>
pfVars == <<pf_equity, scan_i, dd_cur, max_dd_days>>
maVars == <<ma_params>>

\* the variables of the calls that are not running
RsIdle ==
    /\ n_iter = 0 /\ block = 0 /\ iter = 0 /\ stats = <<>>
    /\ df_work = <<>> /\ perm_order = <<>> /\ boot_parts = <<>> /\ total_len = 0

PfIdle == pf_equity = <<>> /\ scan_i = 0 /\ dd_cur = 0 /\ max_dd_days = 0

MaIdle == ma_params = <<>>

NoConfig == [train_years |-> 0, test_years |-> 0, step_years |-> 0]

----------------------------------------------------------------------------
(* Bounds of the model *)

\* largest number of bars of a table given to run_backtest
MaxBars == 3

\* days of a common year of the calendar (a leap year has one more)
YearDays == 30

\* every LeapEvery-th year is a leap year
LeapEvery == 4

\* longest span, in years, of the table given to walk_forward
MaxSpanYears == 10

----------------------------------------------------------------------------
(* Exact arithmetic standing in for float64 *)

NaN == [n |-> 0, d |-> 0]

\* +inf, which only a division by zero in compute_performance produces
PosInf == [n |-> 1, d |-> 0]

IsNaN(x) == x.d = 0 /\ x.n = 0

AbsInt(i) == IF i < 0 THEN -i ELSE i

RECURSIVE GCD(_, _)
GCD(a, b) == IF b = 0 THEN a ELSE GCD(b, a % b)

\* the rational n/d in lowest terms (d /= 0)
Q(n, d) ==
    LET g == GCD(AbsInt(n), AbsInt(d))
        s == IF d < 0 THEN -1 ELSE 1
    IN  [n |-> (s * n) \div g, d |-> (s * d) \div g]

Z(i) == [n |-> i, d |-> 1]

\* IEEE arithmetic on finite values and NaN: NaN is absorbing
Add(x, y) == IF IsNaN(x) \/ IsNaN(y) THEN NaN ELSE Q(x.n * y.d + y.n * x.d, x.d * y.d)
Sub(x, y) == IF IsNaN(x) \/ IsNaN(y) THEN NaN ELSE Q(x.n * y.d - y.n * x.d, x.d * y.d)
Mul(x, y) == IF IsNaN(x) \/ IsNaN(y) THEN NaN ELSE Q(x.n * y.n, x.d * y.d)
AbsQ(x)   == IF IsNaN(x) THEN NaN ELSE [n |-> AbsInt(x.n), d |-> x.d]

\* IEEE comparisons: every comparison with NaN is false
Lt(x, y) == ~IsNaN(x) /\ ~IsNaN(y) /\ x.n * y.d < y.n * x.d
Le(x, y) == ~IsNaN(x) /\ ~IsNaN(y) /\ x.n * y.d <= y.n * x.d
Gt(x, y) == Lt(y, x)
Ge(x, y) == Le(y, x)

----------------------------------------------------------------------------
(* pandas Series operations used by run_backtest; a Series over the        *)
(* table's index is a sequence of values                                   *)

\* Series.fillna(v)
fillna(s, v) == [i \in 1..Len(s) |-> IF IsNaN(s[i]) THEN v ELSE s[i]]

\* Series.shift(1): the value of the previous row, undefined at the first
shift1(s) == [i \in 1..Len(s) |-> IF i = 1 THEN NaN ELSE s[i - 1]]

\* position.reindex(df.index): look every label of the index up in the
\* series; a label the series does not have gives NaN, a label of the
\* series that the index does not have is dropped
reindex(series, index) ==
    [i \in 1..Len(index) |->
        IF index[i] \in DOMAIN series THEN series[index[i]] ELSE NaN]

\* ret.isna().all()  (True on an empty column)
isna_all(s) == \A i \in 1..Len(s) : IsNaN(s[i])

\* the running product of the defined values seen so far (skipna)
RECURSIVE ProdDefined(_, _)
ProdDefined(s, k) ==
    IF k = 0 THEN Z(1)
    ELSE IF IsNaN(s[k]) THEN ProdDefined(s, k - 1)
    ELSE Mul(ProdDefined(s, k - 1), s[k])

\* Series.cumprod(): NaN where the value is NaN, else the running product
\* of the defined values up to and including the row
MutCumprodNoCarry(s) == s
cumprod(s) == [i \in 1..Len(s) |-> IF IsNaN(s[i]) THEN NaN ELSE ProdDefined(s, i)]

----------------------------------------------------------------------------
(* backtester.py *)

\* the divisor turning basis points into a rate
BpsPerUnit == 10000

CostModel(commission_bps, slippage_bps) ==
    [commission_bps |-> commission_bps, slippage_bps |-> slippage_bps]

HasRetSimple(d) == "RetSimple" \in DOMAIN d

\* pos = position.reindex(df.index).fillna(0.0).astype(float)
pos_of(d, p) == fillna(reindex(p, d.index), Z(0))

\* pos_shift = pos.shift(1).fillna(0.0)
MutPosShiftNoLag(pos) == pos
pos_shift_of(pos) == fillna(shift1(pos), Z(0))

\* pnl = pos_shift * ret
realized_pnl(d, p) ==
    LET pos == pos_of(d, p)
        ps  == pos_shift_of(pos)
    IN  [i \in 1..Len(d.index) |-> Mul(ps[i], d.RetSimple[i])]

\* turnover = (pos - pos_shift).abs()
MutTurnoverSigned(pos) ==
    LET ps == pos_shift_of(pos)
    IN  [i \in 1..Len(pos) |-> Sub(pos[i], ps[i])]
turnover_of(pos) ==
    LET ps == pos_shift_of(pos)
    IN  [i \in 1..Len(pos) |-> AbsQ(Sub(pos[i], ps[i]))]

\* per_trade_bps / 1e4
MutCostRateNegated(c) == Q(-(c.commission_bps + c.slippage_bps), BpsPerUnit)
cost_rate(c) == Q(c.commission_bps + c.slippage_bps, BpsPerUnit)

\* the raise of run_backtest: column absent, or every value undefined
MutMissingDataAny(d) ==
    ~HasRetSimple(d) \/ \E i \in 1..Len(d.RetSimple) : IsNaN(d.RetSimple[i])
MissingData(d) == ~HasRetSimple(d) \/ isna_all(d.RetSimple)

\* the BacktestResult of run_backtest when it does not raise
BacktestResult(d, p, c, se) ==
    LET pos      == pos_of(d, p)
        pnl      == realized_pnl(d, p)
        turnover == turnover_of(pos)
        costs    == [i \in 1..Len(pos) |-> Mul(turnover[i], cost_rate(c))]
        net_ret  == [i \in 1..Len(pos) |-> Sub(pnl[i], costs[i])]
        growth   == [i \in 1..Len(pos) |-> Add(Z(1), net_ret[i])]
        cp       == cumprod(growth)
        equity   == [i \in 1..Len(pos) |-> Mul(cp[i], se)]
    IN  [kind |-> "result", equity |-> equity, returns |-> net_ret,
         position |-> pos, turnover |-> turnover, costs |-> costs]

ValueError == [kind |-> "ValueError"]

run_backtest(d, p, c, se) ==
    IF MissingData(d) THEN ValueError ELSE BacktestResult(d, p, c, se)

----------------------------------------------------------------------------
(* Inputs of the backtest specification *)

\* simple returns: undefined, a loss of 50%, a gain of 150%
RetVals == {NaN, Q(-1, 2), Q(3, 2)}

\* target positions: short, long (a missing label stands for flat)
PosVals == {Z(-1), Z(1)}

CommissionVals == {0, 5000}
SlippageVals   == {0, 15000}
EquityVals     == {Z(2)}

Range(n) == [i \in 1..n |-> i]

\* the tables given to run_backtest: with or without the RetSimple column
Tables ==
    UNION {
        {[index |-> Range(n), RetSimple |-> r] : r \in [1..n -> RetVals]}
        \cup {[index |-> Range(n)]}
      : n \in 0..MaxBars }

\* position series over any subset of the labels 1..MaxBars
PositionSeries ==
    UNION { [L -> PosVals] : L \in SUBSET (1..MaxBars) }

None == [kind |-> "None"]

----------------------------------------------------------------------------
(* The backtest specification: one call of run_backtest *)

Init ==
    /\ pc = "ready"
    /\ df \in Tables
    /\ position \in PositionSeries
    /\ cost = CostModel(0, 0)
    /\ starting_equity = Z(1)
    /\ result = None
    /\ grid = <<>> /\ gs_k = 0 /\ best = None /\ evaluated = <<>>
    /\ cfg = NoConfig /\ train_slices = <<>> /\ wf_i = 0 /\ rows = <<>>
    /\ RsIdle /\ PfIdle /\ MaIdle

\* run_backtest(df, position, cost, starting_equity) is called and returns
\* or raises; it works on df.copy() and on the reindexed position, so the
\* caller's table and series are left as they are
RunBacktest ==
    /\ pc = "ready"
    /\ \E cb \in CommissionVals, sb \in SlippageVals, se \in EquityVals :
          /\ cost' = CostModel(cb, sb)
          /\ starting_equity' = se
          /\ result' = run_backtest(df, position, CostModel(cb, sb), se)
    /\ pc' = "done"
    /\ UNCHANGED <<df, position>>
    /\ UNCHANGED gsVars
    /\ UNCHANGED wfVars
    /\ UNCHANGED <<rsVars, pfVars, maVars>>

Next == RunBacktest

Spec == Init /\ [][Next]_vars

----------------------------------------------------------------------------
(* metrics.py: the CAGR of compute_performance *)

\* Series.dropna()
dropna(s) == SelectSeq(s, LAMBDA x : ~IsNaN(x))

EmptyCurve == [kind |-> "ValueError", what |-> "empty equity curve"]

\* 1 + total_return = equity.iloc[-1] / equity.iloc[0]; numpy gives
\* +-inf for x / 0 and NaN for 0 / 0
growth_of(eq) ==
    LET first == eq[1]
        last  == eq[Len(eq)]
    IN  IF first.n = 0
        THEN (IF last.n = 0 THEN NaN ELSE PosInf)
        ELSE Q(last.n * first.d, last.d * first.n)

\* cagr = (1 + total_return) ** (1 / years) - 1 with years > 0 fixed by
\* the first and last timestamp of the curve.  The power of a negative
\* base to the non-integer exponent 1 / years is NaN in numpy; on the
\* non-negative bases the map is strictly increasing, and the CAGR is
\* represented by its base, which orders the CAGRs of one window as the
\* CAGRs themselves are ordered.
cagr_of(g) ==
    IF IsNaN(g) THEN NaN
    ELSE IF g.d = 0 THEN PosInf
    ELSE IF g.n < 0 THEN NaN
    ELSE g

\* to_dict(compute_performance(equity, returns)), the CAGR entry
compute_performance(equity, returns) ==
    LET eq == dropna(equity)
    IN  IF Len(eq) = 0 THEN EmptyCurve
        ELSE [kind |-> "perf", CAGR |-> cagr_of(growth_of(eq))]

----------------------------------------------------------------------------
(* deep_test.py: grid_search *)

\* list(itertools.product(*grid.values())): the last list varies fastest;
\* one empty tuple for a grid without keys, nothing when a list is empty
RECURSIVE Product(_)
Product(g) ==
    IF Len(g) = 0 THEN << <<>> >>
    ELSE LET rest == Product(Tail(g))
             hd   == Head(g)
         IN  [m \in 1..(Len(hd) * Len(rest)) |->
                <<hd[((m - 1) \div Len(rest)) + 1]>> \o rest[((m - 1) % Len(rest)) + 1]]

AssertionError == [kind |-> "AssertionError"]

\* the value lists of one key
ValueLists == {<<>>, <<1>>, <<1, 2>>, <<2, 1>>}

\* grids of two keys
Grids == {<<a, b>> : a \in ValueLists, b \in ValueLists \ {<<2, 1>>}}

\* what a strategy may return for a candidate: flat, long or short on
\* every label
StratPositions ==
    {[l \in {} |-> Z(0)]} \cup {[l \in 1..MaxBars |-> v] : v \in PosVals}

InitGrid ==
    /\ pc = "gs_loop"
    /\ df \in Tables
    /\ grid \in Grids
    /\ cost = CostModel(0, 0)
    /\ gs_k = 0 /\ best = None /\ evaluated = <<>>
    /\ result = None
    /\ position = <<>> /\ starting_equity = Z(1)
    /\ cfg = NoConfig /\ train_slices = <<>> /\ wf_i = 0 /\ rows = <<>>
    /\ RsIdle /\ PfIdle /\ MaIdle

\* if best is None or perf_d["CAGR"] > best[1]["CAGR"]: best = (params, perf_d)
Better(perf, b) == b = None \/ Gt(perf.CAGR, b.perf.CAGR)

\* one pass of the loop of grid_search over the next candidate: the
\* strategy is called (any position series may come back), the backtest
\* and the performance are computed, an error of either ends the call,
\* and best is replaced when the CAGR is strictly higher
GsStep ==
    /\ pc = "gs_loop"
    /\ gs_k < Len(Product(grid))
    /\ \E pos \in StratPositions :
          LET params == Product(grid)[gs_k + 1]
              res    == run_backtest(df, pos, cost, Z(1))
              perf   == compute_performance(res.equity, res.returns)
          IN  IF res.kind = "ValueError"
              THEN /\ result' = res
                   /\ pc' = "done"
                   /\ UNCHANGED <<best, evaluated>>
              ELSE IF perf.kind = "ValueError"
              THEN /\ result' = perf
                   /\ pc' = "done"
                   /\ UNCHANGED <<best, evaluated>>
              ELSE /\ best' = IF Better(perf, best)
                              THEN [kind |-> "best", params |-> params, perf |-> perf]
                              ELSE best
                   /\ evaluated' = Append(evaluated, [params |-> params, CAGR |-> perf.CAGR])
                   /\ UNCHANGED <<result, pc>>
    /\ gs_k' = gs_k + 1
    /\ UNCHANGED <<df, cost, grid>>
    /\ UNCHANGED btVars
    /\ UNCHANGED wfVars
    /\ UNCHANGED <<rsVars, pfVars, maVars>>

\* assert best is not None; return best
MutAssertStripped(b) == b
AssertBest(b) == IF b = None THEN AssertionError ELSE b

\* the product is exhausted: the assertion, then the return
GsReturn ==
    /\ pc = "gs_loop"
    /\ gs_k = Len(Product(grid))
    /\ result' = AssertBest(best)
    /\ pc' = "done"
    /\ UNCHANGED <<df, cost, grid, gs_k, best, evaluated>>
    /\ UNCHANGED btVars
    /\ UNCHANGED wfVars
    /\ UNCHANGED <<rsVars, pfVars, maVars>>

NextGrid == GsStep \/ GsReturn

SpecGrid == InitGrid /\ [][NextGrid]_vars

----------------------------------------------------------------------------
(* Timestamps and pd.DateOffset(years = n).  A timestamp is a day number.  *)
(* Year y starts at YearStart(y); every LeapEvery-th year has a leap day   *)
(* at index LeapDayIndex, which shifts the later days of that year by one. *)

IsLeap(y) == y % LeapEvery = 0

LeapDayIndex == YearDays \div 6

\* the leap years before year y
LeapsBefore(y) == (y + LeapEvery - 1) \div LeapEvery

YearStart(y) == y * YearDays + LeapsBefore(y)

CycleDays == LeapEvery * YearDays + 1

YearOf(t) ==
    LET r == t % CycleDays
    IN  (t \div CycleDays) * LeapEvery
            + (IF r < YearDays + 1 THEN 0 ELSE 1 + (r - (YearDays + 1)) \div YearDays)

DayOfYear(t) == t - YearStart(YearOf(t))

IsLeapDay(t) == IsLeap(YearOf(t)) /\ DayOfYear(t) = LeapDayIndex

\* the month and day of a timestamp that is not a leap day, as the index
\* of the day in a common year
MonthDay(t) ==
    IF IsLeap(YearOf(t)) /\ DayOfYear(t) > LeapDayIndex
    THEN DayOfYear(t) - 1
    ELSE DayOfYear(t)

\* t + pd.DateOffset(years = n): the same month and day n years later; a
\* leap day falls back on the day before it when the year has none
AddYears(t, n) ==
    LET y2 == YearOf(t) + n
    IN  IF IsLeapDay(t)
        THEN YearStart(y2) + (IF IsLeap(y2) THEN LeapDayIndex ELSE LeapDayIndex - 1)
        ELSE YearStart(y2)
                + (IF IsLeap(y2) /\ MonthDay(t) >= LeapDayIndex
                   THEN MonthDay(t) + 1 ELSE MonthDay(t))

Min(a, b) == IF a <= b THEN a ELSE b

----------------------------------------------------------------------------
(* deep_test.py: _year_slices and walk_forward.  The table is given by its *)
(* index, a strictly increasing sequence of timestamps; its returns are    *)
(* defined at every bar, so that the backtests of a window do not raise.   *)

IdxMin(idx) == idx[1]
IdxMax(idx) == idx[Len(idx)]

\* the loop of _year_slices from cur on; stops when cur >= end
RECURSIVE SlicesFrom(_, _, _)
SlicesFrom(cur, end, years) ==
    IF cur < end
    THEN LET stop == AddYears(cur, years)
         IN  <<[start |-> cur, stop |-> Min(stop, end)]>> \o SlicesFrom(stop, end, years)
    ELSE <<>>

\* _year_slices(idx, years); on an empty index min and max are NaT, the
\* comparison NaT < NaT is false and there is no slice
year_slices(idx, years) ==
    IF Len(idx) = 0 THEN <<>> ELSE SlicesFrom(IdxMin(idx), IdxMax(idx), years)

MinTrainBars == 50
MinTestBars == 20

\* df.loc[(df.index >= a) & (df.index < b)], as the index of the selection
Window(idx, a, b) == SelectSeq(idx, LAMBDA t : a <= t /\ t < b)

\* df_train
MutTrainWindowInclusive(idx, train_start, train_end) ==
    SelectSeq(idx, LAMBDA t : train_start <= t /\ t <= train_end)
TrainWindow(idx, train_start, train_end) == Window(idx, train_start, train_end)

\* df_test
MutTestWindowUncut(idx, train_end, test_end) == Window(idx, train_end, test_end)
TestWindow(idx, train_end, test_end) ==
    Window(idx, train_end, Min(test_end, IdxMax(idx)))

\* if len(df_train) < 50 or len(df_test) < 20: continue
MutTooFewBarsTrainOnly(tr, te) == Len(tr) < MinTrainBars
TooFewBars(tr, te) == Len(tr) < MinTrainBars \/ Len(te) < MinTestBars

\* if train_end >= idx.max() or train_start >= idx.max(): break
MutPastEndStartOnly(idx, train_start, train_end) == train_start >= IdxMax(idx)
PastEnd(idx, train_start, train_end) ==
    train_end >= IdxMax(idx) \/ train_start >= IdxMax(idx)

\* rows.append(row)
MutPrependRow(rs, row) == <<row>> \o rs
AppendRow(rs, row) == Append(rs, row)

Configs ==
    {[train_years |-> tr, test_years |-> te, step_years |-> st] :
        tr \in {1, 3}, te \in {1, 2}, st \in {1, 2}}

\* first timestamps: the leap day of year 0, the first day of year 1
WfStarts == {LeapDayIndex, YearStart(1)}

\* days between the last timestamp and a whole number of years
ExtraDays == {-1, 0, 1, 25}

\* a bar every day, or every second day
Strides == {1, 2}

\* the index from first to last with a bar every stride days
Bars(first, last, stride) ==
    IF last < first THEN <<>>
    ELSE [i \in 1..((last - first) \div stride + 1) |-> first + (i - 1) * stride]

\* years without bars, from one year after the first timestamp on
GapYears == {0, 2}

\* the index without the bars of the gap
WithGap(idx, first, gap) ==
    SelectSeq(idx, LAMBDA t : t < AddYears(first, 1) \/ t >= AddYears(first, 1 + gap))

\* grids of one key: one candidate, or none
WfGrids == {<< <<1>> >>, << <<>> >>}

InitWalk ==
    /\ pc = "wf_start"
    /\ \E first \in WfStarts, yrs \in 0..MaxSpanYears, extra \in ExtraDays,
          stride \in Strides, gap \in GapYears :
          df = [index |-> WithGap(Bars(first, AddYears(first, yrs) + extra, stride),
                                  first, gap)]
    /\ cfg \in Configs
    /\ grid \in WfGrids
    /\ cost = CostModel(0, 0)
    /\ train_slices = <<>> /\ wf_i = 0 /\ rows = <<>>
    /\ result = None
    /\ position = <<>> /\ starting_equity = Z(1)
    /\ gs_k = 0 /\ best = None /\ evaluated = <<>>
    /\ RsIdle /\ PfIdle /\ MaIdle

\* idx = df.index; train_slices = _year_slices(idx, cfg.step_years); rows = []
WfStart ==
    /\ pc = "wf_start"
    /\ train_slices' = year_slices(df.index, cfg.step_years)
    /\ wf_i' = 1
    /\ rows' = <<>>
    /\ pc' = "wf_loop"
    /\ UNCHANGED <<df, cost, grid, cfg, result>>
    /\ UNCHANGED btVars
    /\ UNCHANGED <<gs_k, best, evaluated>>
    /\ UNCHANGED <<rsVars, pfVars, maVars>>

\* one pass of the loop of walk_forward: break, continue, or a row.  The
\* call grid_search(df_train, ...) raises on an empty product and else
\* returns one of its candidates; the row keeps, besides its columns, the
\* index of the tables given to grid_search (train) and to run_backtest
\* (test)
WfStep ==
    /\ pc = "wf_loop"
    /\ wf_i <= Len(train_slices)
    /\ LET idx         == df.index
           train_start == train_slices[wf_i].start
           train_end   == AddYears(train_start, cfg.train_years)
           test_end    == AddYears(train_end, cfg.test_years)
           df_train    == TrainWindow(idx, train_start, train_end)
           df_test     == TestWindow(idx, train_end, test_end)
       IN  IF PastEnd(idx, train_start, train_end)
           THEN /\ pc' = "wf_return"
                /\ UNCHANGED <<wf_i, rows, result>>
           ELSE IF TooFewBars(df_train, df_test)
           THEN /\ wf_i' = wf_i + 1
                /\ UNCHANGED <<pc, rows, result>>
           ELSE IF Len(Product(grid)) = 0
           THEN /\ result' = AssertionError
                /\ pc' = "done"
                /\ UNCHANGED <<wf_i, rows>>
           ELSE \E c \in 1..Len(Product(grid)) :
                /\ rows' = AppendRow(rows,
                      [train_start |-> train_start,
                       train_end   |-> train_end,
                       test_end    |-> Min(test_end, IdxMax(idx)),
                       params      |-> Product(grid)[c],
                       train       |-> df_train,
                       test        |-> df_test])
                /\ wf_i' = wf_i + 1
                /\ UNCHANGED <<pc, result>>
    /\ UNCHANGED <<df, cost, grid, cfg, train_slices>>
    /\ UNCHANGED btVars
    /\ UNCHANGED <<gs_k, best, evaluated>>
    /\ UNCHANGED <<rsVars, pfVars, maVars>>

\* return pd.DataFrame(rows), after the break or the last slice
WfReturn ==
    /\ \/ pc = "wf_return"
       \/ pc = "wf_loop" /\ wf_i > Len(train_slices)
    /\ result' = [kind |-> "rows", rows |-> rows]
    /\ pc' = "done"
    /\ UNCHANGED <<df, cost, grid, cfg, train_slices, wf_i, rows>>
    /\ UNCHANGED btVars
    /\ UNCHANGED <<gs_k, best, evaluated>>
    /\ UNCHANGED <<rsVars, pfVars, maVars>>

NextWalk == WfStart \/ WfStep \/ WfReturn

SpecWalk == InitWalk /\ [][NextWalk]_vars

----------------------------------------------------------------------------
(* deep_test.py: what permutation_test and bootstrap_ci share.  The CAGRs  *)
(* of resampled returns are compared across curves whose first and last    *)
(* defined bar may differ, so a CAGR is kept here as the base 1 +          *)
(* total_return together with the days between the first and the last      *)
(* defined bar of the curve.                                               *)

\* the calls of one iteration may share a table: the caller's, or a copy
CallerRef == "caller"

\* df.copy(): a new table with the caller's values
MutCopyAliased == CallerRef
CopyRef == "copy"

\* df_x = df.copy(); df_x["RetSimple"] = values: both tables afterwards
SetRetSimple(d, values) ==
    LET heap == [r \in {CallerRef, CopyRef} |-> d]
    IN  [heap EXCEPT ![CopyRef] = [@ EXCEPT !.RetSimple = values]]

\* block = max(1, int(block))
block_of(b) == IF b < 1 THEN 1 ELSE b

\* s[lo:hi] for 0 <= lo <= hi: the positions lo .. hi - 1 counted from 0,
\* cut at the end of s
Slice(s, lo, hi) == SubSeq(s, lo + 1, Min(hi, Len(s)))

\* np.concatenate(parts)
RECURSIVE Concat(_)
Concat(parts) ==
    IF Len(parts) = 0 THEN <<>> ELSE Head(parts) \o Concat(Tail(parts))

\* np.concatenate([]) raises
ConcatError == [kind |-> "ValueError", what |-> "need at least one array"]

\* df["RetSimple"] on a table without the column
KeyError == [kind |-> "KeyError"]

FirstDefined(s) == CHOOSE i \in 1..Len(s) :
    ~IsNaN(s[i]) /\ \A j \in 1..(i - 1) : IsNaN(s[j])

LastDefined(s) == CHOOSE i \in 1..Len(s) :
    ~IsNaN(s[i]) /\ \A j \in (i + 1)..Len(s) : IsNaN(s[j])

\* to_dict(compute_performance(res.equity, res.returns))["CAGR"] of a
\* result over the index idx: years is the time between the first and the
\* last defined bar, and 1e-9 when they are the same bar, where the base
\* is 1 or undefined and the power leaves it as it is
cagr_over(res, idx) ==
    LET perf == compute_performance(res.equity, res.returns)
    IN  IF perf.kind = "ValueError" THEN perf
        ELSE LET span == idx[LastDefined(res.equity)] - idx[FirstDefined(res.equity)]
             IN  [kind |-> "perf",
                  CAGR |-> [base |-> perf.CAGR,
                            days |-> IF span = 0 THEN 1 ELSE span]]

RECURSIVE Pow(_, _)
Pow(x, k) == IF k = 0 THEN Z(1) ELSE Mul(Pow(x, k - 1), x)

\* a >= b for two CAGRs: the bases are not negative, and
\* x ** (1 / da) >= y ** (1 / db) exactly when x ** db >= y ** da
CagrGe(a, b) ==
    /\ ~IsNaN(a.base) /\ ~IsNaN(b.base)
    /\ Ge(Pow(a.base, b.days), Pow(b.base, a.days))

\* the values of the argument n_iter
IterArgs == {0, 1, 2}

\* the values of the argument block; 0 stands for every value below 1
BlockArgs == {0, 2}

\* the arguments n_iter and block of a call: two iterations with blocks
\* of two only
ResampleArgs ==
    {a \in [n_iter : IterArgs, block : BlockArgs] : a.n_iter < 2 \/ a.block >= 2}

----------------------------------------------------------------------------
(* deep_test.py: permutation_test *)

\* blocks = int(np.ceil(n / block))
BlockCount(n, b) == (n + b - 1) \div b

\* rng.permutation(blocks): the orders of 0 .. blocks - 1
Orders(k) ==
    {o \in [1..k -> 0..(k - 1)] : \A i, j \in 1..k : i /= j => o[i] /= o[j]}

\* np.concatenate([rets[i*block:(i+1)*block] for i in order])[:n]
MutReshuffleInPlace(rets, ord, b, n) == rets
reshuffle(rets, ord, b, n) ==
    Slice(Concat([j \in 1..Len(ord) |-> Slice(rets, ord[j] * b, (ord[j] + 1) * b)]),
          0, n)

\* float((np.sum(np.array(stats) >= cagr_true) + 1) / (n_iter + 1))
MutPValueNoSmoothing(st, cagr_true, n) ==
    Q(Cardinality({i \in 1..Len(st) : CagrGe(st[i], cagr_true)}), n + 1)
p_value_of(st, cagr_true, n) ==
    Q(Cardinality({i \in 1..Len(st) : CagrGe(st[i], cagr_true)}) + 1, n + 1)

InitPerm ==
    /\ pc = "pt_start"
    /\ df \in Tables
    /\ cost \in {CostModel(0, 0), CostModel(5000, 0)}
    /\ \E a \in ResampleArgs : n_iter = a.n_iter /\ block = a.block
    /\ iter = 0 /\ stats = <<>> /\ df_work = <<>> /\ perm_order = <<>>
    /\ boot_parts = <<>> /\ total_len = 0
    /\ result = None
    /\ position = <<>> /\ starting_equity = Z(1)
    /\ grid = <<>> /\ gs_k = 0 /\ best = None /\ evaluated = <<>>
    /\ cfg = NoConfig /\ train_slices = <<>> /\ wf_i = 0 /\ rows = <<>>
    /\ PfIdle /\ MaIdle

\* lines 79-87: the strategy gives the position series once, the backtest
\* of the caller's table gives the true performance, an error of either
\* ends the call
PtStart ==
    /\ pc = "pt_start"
    /\ \E pos \in StratPositions :
          LET res_true  == run_backtest(df, pos, cost, Z(1))
              perf_true == cagr_over(res_true, df.index)
          IN  /\ position' = pos
              /\ IF res_true.kind = "ValueError"
                 THEN result' = res_true /\ pc' = "done"
                 ELSE IF perf_true.kind = "ValueError"
                 THEN result' = perf_true /\ pc' = "done"
                 ELSE UNCHANGED result /\ pc' = "pt_loop"
    /\ UNCHANGED <<df, cost, starting_equity>>
    /\ UNCHANGED <<gsVars, wfVars, rsVars, pfVars, maVars>>

\* one pass of the loop: an order is drawn, the reshuffled returns are put
\* in a copy of the table, the backtest of the copy gives one CAGR
PtIter ==
    /\ pc = "pt_loop"
    /\ iter < n_iter
    /\ LET rets   == df.RetSimple
           n      == Len(rets)
           b      == block_of(block)
           blocks == BlockCount(n, b)
       IN  \E ord \in Orders(blocks) :
              LET reshuffled == reshuffle(rets, ord, b, n)
                  after      == SetRetSimple(df, reshuffled)
                  df_shuf    == after[CopyRef]
                  res        == run_backtest(df_shuf, position, cost, Z(1))
                  perf       == cagr_over(res, df_shuf.index)
              IN  /\ perm_order' = ord
                  /\ df' = after[CallerRef]
                  /\ df_work' = df_shuf
                  /\ IF res.kind = "ValueError"
                     THEN result' = res /\ pc' = "done" /\ UNCHANGED <<stats, iter>>
                     ELSE IF perf.kind = "ValueError"
                     THEN result' = perf /\ pc' = "done" /\ UNCHANGED <<stats, iter>>
                     ELSE /\ stats' = Append(stats, perf.CAGR)
                          /\ iter' = iter + 1
                          /\ UNCHANGED <<result, pc>>
    /\ UNCHANGED <<position, cost, starting_equity, n_iter, block, boot_parts, total_len>>
    /\ UNCHANGED <<gsVars, wfVars, pfVars, maVars>>

\* lines 96-98: the true CAGR and the p-value
PtReturn ==
    /\ pc = "pt_loop"
    /\ iter >= n_iter
    /\ LET cagr_true == cagr_over(run_backtest(df, position, cost, Z(1)), df.index).CAGR
       IN  result' = [kind |-> "permutation", CAGR_true |-> cagr_true,
                      p_value |-> p_value_of(stats, cagr_true, n_iter)]
    /\ pc' = "done"
    /\ UNCHANGED <<df, position, cost, starting_equity>>
    /\ UNCHANGED <<gsVars, wfVars, rsVars, pfVars, maVars>>

NextPerm == PtStart \/ PtIter \/ PtReturn

SpecPerm == InitPerm /\ [][NextPerm]_vars

----------------------------------------------------------------------------
(* deep_test.py: bootstrap_ci.  boot_parts keeps the drawn segments by     *)
(* their number (from 0); the interval returned is a function of           *)
(* cagr_list and is kept as that list.                                     *)

\* len(list(range(0, n, block)))
seg_count_of(n, b) == (n + b - 1) \div b

\* segments[i] = rets[s : min(s + block, n)] for s = starts[i]
segment(rets, i, b) == Slice(rets, i * b, Min(i * b + b, Len(rets)))

\* while total_len < n
MutDrawWhileAtMost(total, n) == total <= n
DrawAgain(total, n) == total < n

\* np.concatenate(boot_parts)[:n]
boot_of(rets, parts, b, n) ==
    Slice(Concat([j \in 1..Len(parts) |-> segment(rets, parts[j], b)]), 0, n)

\* np.quantile of an empty list raises
QuantileError == [kind |-> "IndexError"]

\* returns of the tables given to bootstrap_ci: undefined, a gain of 150%
BootVals == {NaN, Q(3, 2)}

BootTables ==
    {t \in Tables : HasRetSimple(t) => \A i \in 1..Len(t.index) : t.RetSimple[i] \in BootVals}

InitBoot ==
    /\ pc = "bs_start"
    /\ df \in BootTables
    /\ cost = CostModel(0, 0)
    /\ \E a \in ResampleArgs : n_iter = a.n_iter /\ block = a.block
    /\ iter = 0 /\ stats = <<>> /\ df_work = <<>> /\ perm_order = <<>>
    /\ boot_parts = <<>> /\ total_len = 0
    /\ result = None
    /\ position = <<>> /\ starting_equity = Z(1)
    /\ grid = <<>> /\ gs_k = 0 /\ best = None /\ evaluated = <<>>
    /\ cfg = NoConfig /\ train_slices = <<>> /\ wf_i = 0 /\ rows = <<>>
    /\ PfIdle /\ MaIdle

\* lines 102-111: the strategy gives the position series once; reading
\* the column of a table that has none raises
BsStart ==
    /\ pc = "bs_start"
    /\ \E pos \in StratPositions : position' = pos
    /\ IF HasRetSimple(df)
       THEN pc' = "bs_iter" /\ UNCHANGED result
       ELSE pc' = "done" /\ result' = KeyError
    /\ UNCHANGED <<df, cost, starting_equity>>
    /\ UNCHANGED <<gsVars, wfVars, rsVars, pfVars, maVars>>

\* lines 112-114: the next iteration starts with no part
BsBegin ==
    /\ pc = "bs_iter"
    /\ iter < n_iter
    /\ boot_parts' = <<>>
    /\ total_len' = 0
    /\ pc' = "bs_draw"
    /\ UNCHANGED <<df, position, cost, starting_equity, result>>
    /\ UNCHANGED <<n_iter, block, iter, stats, df_work, perm_order>>
    /\ UNCHANGED <<gsVars, wfVars, pfVars, maVars>>

\* lines 116-120: one pass of the sampling loop
BsDraw ==
    /\ pc = "bs_draw"
    /\ DrawAgain(total_len, Len(df.RetSimple))
    /\ LET b == block_of(block)
       IN  \E i \in 0..(seg_count_of(Len(df.RetSimple), b) - 1) :
              /\ boot_parts' = Append(boot_parts, i)
              /\ total_len' = total_len + Len(segment(df.RetSimple, i, b))
    /\ UNCHANGED <<df, position, cost, starting_equity, result, pc>>
    /\ UNCHANGED <<n_iter, block, iter, stats, df_work, perm_order>>
    /\ UNCHANGED <<gsVars, wfVars, pfVars, maVars>>

\* lines 121-126: the sample is cut to n values and put in a copy of the
\* table, the backtest of the copy gives one CAGR
BsSample ==
    /\ pc = "bs_draw"
    /\ ~DrawAgain(total_len, Len(df.RetSimple))
    /\ IF Len(boot_parts) = 0
       THEN /\ result' = ConcatError
            /\ pc' = "done"
            /\ UNCHANGED <<df, df_work, stats, iter>>
       ELSE LET b     == block_of(block)
                boot  == boot_of(df.RetSimple, boot_parts, b, Len(df.RetSimple))
                after == SetRetSimple(df, boot)
                df_b  == after[CopyRef]
                res   == run_backtest(df_b, position, cost, Z(1))
                perf  == cagr_over(res, df_b.index)
            IN  /\ df' = after[CallerRef]
                /\ df_work' = df_b
                /\ IF res.kind = "ValueError"
                   THEN result' = res /\ pc' = "done" /\ UNCHANGED <<stats, iter>>
                   ELSE IF perf.kind = "ValueError"
                   THEN result' = perf /\ pc' = "done" /\ UNCHANGED <<stats, iter>>
                   ELSE /\ stats' = Append(stats, perf.CAGR)
                        /\ iter' = iter + 1
                        /\ pc' = "bs_iter"
                        /\ UNCHANGED result
    /\ UNCHANGED <<position, cost, starting_equity>>
    /\ UNCHANGED <<n_iter, block, perm_order, boot_parts, total_len>>
    /\ UNCHANGED <<gsVars, wfVars, pfVars, maVars>>

\* lines 127-129: the quantiles of cagr_list
BsReturn ==
    /\ pc = "bs_iter"
    /\ iter >= n_iter
    /\ result' = IF Len(stats) = 0 THEN QuantileError
                 ELSE [kind |-> "bootstrap", cagr_list |-> stats]
    /\ pc' = "done"
    /\ UNCHANGED <<df, position, cost, starting_equity>>
    /\ UNCHANGED <<gsVars, wfVars, rsVars, pfVars, maVars>>

NextBoot == BsStart \/ BsBegin \/ BsDraw \/ BsSample \/ BsReturn

SpecBoot == InitBoot /\ [][NextBoot]_vars

\* the sampling loop is not suspended: a draw that is due is made
SpecBootLive == SpecBoot /\ WF_vars(BsDraw)

----------------------------------------------------------------------------
(* metrics.py: drawdown and the drawdown statistics of                     *)
(* compute_performance.  The subtraction equity / peak - 1.0 is rounded    *)
(* as float64 rounds it, to the nearest value with MantissaBits            *)
(* significant bits, ties to even; float64 has 53 of them.                 *)

\* longest equity curve given to compute_performance
MaxCurve == 4

\* significant bits of a float of the model
MantissaBits == 3

RECURSIVE TwoTo(_)
TwoTo(k) == IF k = 0 THEN 1 ELSE 2 * TwoTo(k - 1)

\* x / y for defined x and y: +-inf for x / 0, NaN for 0 / 0
Div(x, y) ==
    IF y.n = 0
    THEN (IF x.n = 0 THEN NaN ELSE IF x.n > 0 THEN PosInf ELSE [n |-> -1, d |-> 0])
    ELSE Q(x.n * y.d, x.d * y.n)

\* the multiple of 1 / 2^bits nearest to the rational x, ties to the even
\* multiple
RoundToGrid(x, bits) ==
    LET scaled == x.n * TwoTo(bits)
        lower  == scaled \div x.d
        twice  == 2 * (scaled - lower * x.d)
        k      == IF twice < x.d THEN lower
                  ELSE IF twice > x.d THEN lower + 1
                  ELSE IF lower % 2 = 0 THEN lower ELSE lower + 1
    IN  Q(k, TwoTo(bits))

\* q - 1.0: the floats from -1 to -1/2 are the multiples of
\* 1 / 2^MantissaBits; the finer ones above -1/2 are kept exact
SubOne(q) ==
    IF q.d = 0 THEN q
    ELSE LET x == Sub(q, Z(1))
         IN  IF Ge(x, Z(-1)) /\ Le(x, Q(-1, 2)) THEN RoundToGrid(x, MantissaBits) ELSE x

MaxQ(x, y) == IF Lt(x, y) THEN y ELSE x

\* Series.cummax() of a series without undefined values
MutCummaxFirst(s) == [i \in 1..Len(s) |-> s[1]]
cummax(s) ==
    [i \in 1..Len(s) |->
        LET RECURSIVE upto(_)
            upto(k) == IF k = 1 THEN s[1] ELSE MaxQ(upto(k - 1), s[k])
        IN  upto(i)]

\* drawdown(equity): peak = equity.cummax(); dd = equity / peak - 1.0
drawdown(eq) ==
    LET peak == cummax(eq)
    IN  [i \in 1..Len(eq) |-> SubOne(Div(eq[i], peak[i]))]

\* Series.min(): the least defined value, NaN when there is none
min_of(s) ==
    LET defined == {i \in 1..Len(s) : ~IsNaN(s[i])}
    IN  IF defined = {} THEN NaN
        ELSE s[CHOOSE i \in defined : \A j \in defined : Le(s[i], s[j])]

\* dd_is = dd != 0: true for an undefined drawdown
dd_is(x) == IsNaN(x) \/ x /= Z(0)

\* the body of the loop over dd_is, for cur
MutCurNoReset(flag, c) == IF flag THEN c + 1 ELSE c
next_cur(flag, c) == IF flag THEN c + 1 ELSE 0

\* the body of the loop over dd_is, for max_dd_days
next_max_dd_days(flag, c, m) ==
    IF flag THEN (IF c + 1 > m THEN c + 1 ELSE m) ELSE m

\* equity values: undefined, ruin, and three levels
CurveVals == {NaN, Z(0), Z(1), Z(2), Z(64)}

Curves == UNION {[1..n -> CurveVals] : n \in 0..MaxCurve}

InitMetrics ==
    /\ pc = "cp_start"
    /\ pf_equity \in Curves
    /\ scan_i = 0 /\ dd_cur = 0 /\ max_dd_days = 0
    /\ df = <<>> /\ position = <<>> /\ cost = CostModel(0, 0)
    /\ starting_equity = Z(1) /\ result = None
    /\ grid = <<>> /\ gs_k = 0 /\ best = None /\ evaluated = <<>>
    /\ cfg = NoConfig /\ train_slices = <<>> /\ wf_i = 0 /\ rows = <<>>
    /\ RsIdle /\ MaIdle

\* lines 35-52: the undefined values are dropped, an empty curve raises,
\* the drawdown is computed and the scan starts
CpStart ==
    /\ pc = "cp_start"
    /\ IF Len(dropna(pf_equity)) = 0
       THEN result' = EmptyCurve /\ pc' = "done"
       ELSE UNCHANGED result /\ pc' = "cp_scan"
    /\ scan_i' = 0 /\ dd_cur' = 0 /\ max_dd_days' = 0
    /\ UNCHANGED <<df, position, cost, starting_equity, pf_equity>>
    /\ UNCHANGED <<gsVars, wfVars, rsVars, maVars>>

\* lines 53-58: one pass of the loop over dd_is
CpScan ==
    /\ pc = "cp_scan"
    /\ scan_i < Len(dropna(pf_equity))
    /\ LET flag == dd_is(drawdown(dropna(pf_equity))[scan_i + 1])
       IN  /\ dd_cur' = next_cur(flag, dd_cur)
           /\ max_dd_days' = next_max_dd_days(flag, dd_cur, max_dd_days)
    /\ scan_i' = scan_i + 1
    /\ UNCHANGED <<df, position, cost, starting_equity, pf_equity, result, pc>>
    /\ UNCHANGED <<gsVars, wfVars, rsVars, maVars>>

\* lines 59-81: the Performance record, its CAGR, MaxDD and MaxDD_Days
CpReturn ==
    /\ pc = "cp_scan"
    /\ scan_i >= Len(dropna(pf_equity))
    /\ result' = [kind       |-> "performance",
                  CAGR       |-> compute_performance(pf_equity, <<>>).CAGR,
                  MaxDD      |-> min_of(drawdown(dropna(pf_equity))),
                  MaxDD_Days |-> max_dd_days]
    /\ pc' = "done"
    /\ UNCHANGED <<df, position, cost, starting_equity>>
    /\ UNCHANGED <<gsVars, wfVars, rsVars, pfVars, maVars>>

NextMetrics == CpStart \/ CpScan \/ CpReturn

SpecMetrics == InitMetrics /\ [][NextMetrics]_vars

----------------------------------------------------------------------------
(* strategy_template.py: ma_cross *)

\* params.get("fast", 20) and params.get("slow", 100)
DefaultFast == 20
DefaultSlow == 100

\* params.get(key, default)
Get(p, key, default) == IF key \in DOMAIN p THEN p[key] ELSE default

\* close.rolling(w, min_periods = w).mean(): the mean of the last w values,
\* undefined until there are w of them and while one of them is undefined
rolling_mean(s, w) ==
    [t \in 1..Len(s) |->
        IF t < w \/ \E u \in (t - w + 1)..t : IsNaN(s[u]) THEN NaN
        ELSE LET RECURSIVE sum(_)
                 sum(u) == IF u = t - w THEN Z(0) ELSE Add(sum(u - 1), s[u])
             IN  Div(sum(t), Z(w))]

\* spread = (ma_f - ma_s) / ma_s
spread_of(close, fast, slow) ==
    LET ma_f == rolling_mean(close, fast)
        ma_s == rolling_mean(close, slow)
    IN  [t \in 1..Len(close) |->
            IF IsNaN(ma_f[t]) \/ IsNaN(ma_s[t]) THEN NaN
            ELSE Div(Sub(ma_f[t], ma_s[t]), ma_s[t])]

\* nz_bps / 1e4
threshold(nz_bps) == Q(nz_bps, 10000)

\* buy = spread > (nz_bps / 1e4)
buy_of(spread, nz_bps) == [t \in 1..Len(spread) |-> Gt(spread[t], threshold(nz_bps))]

\* sell = spread < -(nz_bps / 1e4)
sell_of(spread, nz_bps) ==
    [t \in 1..Len(spread) |-> Lt(spread[t], Sub(Z(0), threshold(nz_bps)))]

\* Series.mask(cond, v): v where cond holds
mask(s, cond, v) == [t \in 1..Len(s) |-> IF cond[t] THEN v ELSE s[t]]

\* Series.replace(0, pd.NA)
replace_zero(s) == [t \in 1..Len(s) |-> IF s[t] = Z(0) THEN NaN ELSE s[t]]

\* Series.ffill(): an undefined value takes the last defined one before it
MutFfillNothing(s) == s
ffill(s) ==
    [t \in 1..Len(s) |->
        LET RECURSIVE last(_)
            last(u) == IF u = 0 THEN NaN
                       ELSE IF IsNaN(s[u]) THEN last(u - 1) ELSE s[u]
        IN  last(t)]

\* Series.clip(-1, 1)
clip(s) ==
    [t \in 1..Len(s) |->
        IF Lt(s[t], Z(-1)) THEN Z(-1) ELSE IF Gt(s[t], Z(1)) THEN Z(1) ELSE s[t]]

\* ma_cross(df, params); pos.where(spread.isna(), pos) puts pos in the
\* place of pos and changes nothing
ma_cross(d, p) ==
    LET fast   == Get(p, "fast", DefaultFast)
        slow   == Get(p, "slow", DefaultSlow)
        nz_bps == Get(p, "neutral_zone", 0)
        spread == spread_of(d.Close, fast, slow)
        flat   == [t \in 1..Len(d.index) |-> Z(0)]
        bought == mask(flat, buy_of(spread, nz_bps), Z(1))
        sold   == mask(bought, sell_of(spread, nz_bps), Z(-1))
    IN  clip(fillna(ffill(replace_zero(sold)), Z(0)))

\* closing prices: undefined, and three levels
CloseVals == {NaN, Z(1), Z(4), Z(5)}

CloseTables ==
    UNION {{[index |-> Range(n), Close |-> c] : c \in [1..n -> CloseVals]}
              : n \in 0..MaxCurve}

\* parameter mappings: windows of 1 to 3 bars with a neutral zone of 0 or
\* 2500 bps (a width, never negative), the same without the neutral_zone
\* key, and the empty mapping
ParamSets ==
    {[fast |-> f, slow |-> sl, neutral_zone |-> nz] :
        f \in {1, 2}, sl \in {2, 3}, nz \in {0, 2500}}
    \cup {[fast |-> 1, slow |-> 2], <<>>}

InitMa ==
    /\ pc = "ma_start"
    /\ df \in CloseTables
    /\ ma_params \in ParamSets
    /\ result = None
    /\ position = <<>> /\ cost = CostModel(0, 0) /\ starting_equity = Z(1)
    /\ grid = <<>> /\ gs_k = 0 /\ best = None /\ evaluated = <<>>
    /\ cfg = NoConfig /\ train_slices = <<>> /\ wf_i = 0 /\ rows = <<>>
    /\ RsIdle /\ PfIdle

\* ma_cross(df, params) is called and returns the position series
MaCross ==
    /\ pc = "ma_start"
    /\ result' = [kind |-> "position", pos |-> ma_cross(df, ma_params)]
    /\ pc' = "done"
    /\ UNCHANGED <<df, position, cost, starting_equity>>
    /\ UNCHANGED <<gsVars, wfVars, rsVars, pfVars, maVars>>

NextMa == MaCross

SpecMa == InitMa /\ [][NextMa]_vars

----------------------------------------------------------------------------
(* The four validation protocols side by side: a call of grid_search, of   *)
(* walk_forward, of permutation_test or of bootstrap_ci on the caller's    *)
(* table; grid_search on grids of at most two candidates                   *)

InitProtocols ==
    \/ InitGrid /\ Len(Product(grid)) <= 2
    \/ InitWalk
    \/ InitPerm
    \/ InitBoot

NextProtocols == NextGrid \/ NextWalk \/ NextPerm \/ NextBoot

SpecProtocols == InitProtocols /\ [][NextProtocols]_vars

----------------------------------------------------------------------------
(* Properties of run_backtest *)

Returned == pc = "done" /\ result.kind = "result"

NBars == Len(df.index)

\* the caller's series with the value at one label replaced
WithPosition(p, label, v) ==
    [l \in (DOMAIN p) \cup {label} |-> IF l = label THEN v ELSE p[l]]

\* the caller's series without one label
WithoutPosition(p, label) == [l \in (DOMAIN p) \ {label} |-> p[l]]

PositionVariants(p, label) ==
    {WithPosition(p, label, v) : v \in PosVals} \cup {WithoutPosition(p, label)}

\* the lag for the bars after the first, and the independence of the PnL of
\* a bar from the position set at that bar
LagAfterFirst ==
    LET pnl == realized_pnl(df, position)
    IN  /\ \A t \in 2..NBars :
              pnl[t] = Mul(result.position[t - 1], df.RetSimple[t])
        /\ \A t \in 1..NBars : \A p2 \in PositionVariants(position, df.index[t]) :
              realized_pnl(df, p2)[t] = pnl[t]

\* C1 as stated: for every bar after the first the realized PnL is the
\* position of the previous bar times the return of the bar; at the first
\* bar it is 0 whatever the first return is; the position set at a bar
\* never affects the PnL of that bar.
C1_AsStated ==
    Returned =>
        /\ LagAfterFirst
        /\ NBars >= 1 => realized_pnl(df, position)[1] = Z(0)

\* C1 amended: as stated, except that the PnL of the first bar is 0 only
\* when the first return is defined; with an undefined first return the
\* PnL of the first bar is undefined.
C1_LagDiscipline ==
    Returned =>
        /\ LagAfterFirst
        /\ NBars >= 1 =>
              realized_pnl(df, position)[1] =
                  (IF IsNaN(df.RetSimple[1]) THEN NaN ELSE Z(0))

\* a run where the lag shows: a non-zero first return earning nothing
\* under a non-flat first position, and a later bar earning the previous
\* bar's position while the position changes at that bar
C1_Witness ==
    /\ Returned
    /\ NBars >= 2
    /\ ~IsNaN(df.RetSimple[1]) /\ df.RetSimple[1] /= Z(0)
    /\ result.position[1] /= Z(0)
    /\ realized_pnl(df, position)[1] = Z(0)
    /\ \E t \in 2..NBars :
          /\ ~IsNaN(df.RetSimple[t]) /\ df.RetSimple[t] /= Z(0)
          /\ result.position[t] /= result.position[t - 1]
          /\ realized_pnl(df, position)[t] /= Z(0)

\* the cost models at least as expensive as c in both rates
RaisedCosts(c) ==
    {CostModel(cb, sb) : cb \in {x \in CommissionVals : x >= c.commission_bps},
                         sb \in {x \in SlippageVals : x >= c.slippage_bps}}

NetNeverHigher(r2) ==
    \A t \in 1..NBars : ~Gt(r2.returns[t], result.returns[t])

\* C4 as stated: with position and returns fixed, raising commission_bps
\* or slippage_bps never increases the net return at any bar and never
\* increases the equity at any bar.
C4_AsStated ==
    Returned =>
        \A c2 \in RaisedCosts(cost) :
            LET r2 == run_backtest(df, position, c2, starting_equity)
            IN  /\ NetNeverHigher(r2)
                /\ \A t \in 1..NBars : ~Gt(r2.equity[t], result.equity[t])

\* every bar up to t keeps a non-negative growth factor 1 + net_return
GrowthNonNegativeUpTo(r, t) ==
    \A s \in 1..t : IsNaN(r.returns[s]) \/ Ge(Add(Z(1), r.returns[s]), Z(0))

\* C4 amended: raising commission_bps or slippage_bps never increases the
\* net return at any bar; it never increases the equity at a bar provided
\* starting_equity is positive and, in the run with the higher costs,
\* 1 + net_return is non-negative at every bar up to that bar.
C4_MonotonicCost ==
    Returned =>
        \A c2 \in RaisedCosts(cost) :
            LET r2 == run_backtest(df, position, c2, starting_equity)
            IN  /\ NetNeverHigher(r2)
                /\ \A t \in 1..NBars :
                      (Gt(starting_equity, Z(0)) /\ GrowthNonNegativeUpTo(r2, t))
                          => ~Gt(r2.equity[t], result.equity[t])

\* a free run with turnover whose equity is strictly lower under a higher
\* cost that keeps every growth factor non-negative
C4_Witness ==
    /\ Returned
    /\ NBars >= 2
    /\ cost = CostModel(0, 0)
    /\ \E c2 \in RaisedCosts(cost) :
          LET r2 == run_backtest(df, position, c2, starting_equity)
          IN  /\ GrowthNonNegativeUpTo(r2, NBars)
              /\ Lt(r2.equity[NBars], result.equity[NBars])
              /\ Lt(r2.returns[NBars], result.returns[NBars])

\* net_return[t] = realized_pnl[t] - turnover[t] * (commission + slippage) / 10000
NetReturnFormula ==
    \A t \in 1..NBars :
        result.returns[t] =
            Sub(realized_pnl(df, position)[t],
                Mul(result.turnover[t],
                    Q(cost.commission_bps + cost.slippage_bps, 10000)))

\* C5 as stated: equity[t] = equity[t-1] * (1 + net_return[t]) for every
\* bar after the first, equity at the first bar is starting_equity *
\* (1 + net_return), and net_return is realized PnL minus turnover times
\* the cost rate.
C5_AsStated ==
    Returned =>
        /\ NetReturnFormula
        /\ NBars >= 1 =>
              result.equity[1] = Mul(starting_equity, Add(Z(1), result.returns[1]))
        /\ \A t \in 2..NBars :
              result.equity[t] = Mul(result.equity[t - 1], Add(Z(1), result.returns[t]))

\* the last defined equity before bar t, starting_equity when there is none
RECURSIVE LastDefinedEquity(_, _)
LastDefinedEquity(r, t) ==
    IF t = 1 THEN starting_equity
    ELSE IF IsNaN(r.equity[t - 1]) THEN LastDefinedEquity(r, t - 1)
    ELSE r.equity[t - 1]

\* C5 amended: equity[t] = E * (1 + net_return[t]) where E is the last
\* defined equity before bar t (starting_equity when there is none), so
\* equity[t] = equity[t-1] * (1 + net_return[t]) whenever the net return
\* of bar t-1 is defined; a bar with an undefined net return has an
\* undefined equity and is skipped by the compounding, which is never
\* reset.
C5_Compounding ==
    Returned =>
        /\ NetReturnFormula
        /\ \A t \in 1..NBars :
              result.equity[t] =
                  Mul(LastDefinedEquity(result, t), Add(Z(1), result.returns[t]))
        /\ \A t \in 2..NBars :
              ~IsNaN(result.returns[t - 1]) =>
                  result.equity[t] =
                      Mul(result.equity[t - 1], Add(Z(1), result.returns[t]))

\* three bars that all move the equity, with costs charged
C5_Witness ==
    /\ Returned
    /\ NBars >= 3
    /\ cost.commission_bps + cost.slippage_bps > 0
    /\ starting_equity /= Z(1)
    /\ result.equity[1] = Mul(starting_equity, Add(Z(1), result.returns[1]))
    /\ \A t \in 1..NBars : ~IsNaN(result.returns[t]) /\ result.returns[t] /= Z(0)
    /\ result.equity[3] /= result.equity[2]
    /\ result.equity[2] /= result.equity[1]

RECURSIVE SumQ(_, _)
SumQ(s, k) == IF k = 0 THEN Z(0) ELSE Add(SumQ(s, k - 1), s[k])

\* C6: turnover[t] = |position[t] - position[t-1]| for every bar after the
\* first and |position| at the first bar; turnover is non-negative at
\* every bar and its sum is at least |position[last] - position[first]|.
C6_Turnover ==
    Returned =>
        /\ \A t \in 2..NBars :
              result.turnover[t] = AbsQ(Sub(result.position[t], result.position[t - 1]))
        /\ NBars >= 1 => result.turnover[1] = AbsQ(Sub(result.position[1], Z(0)))
        /\ \A t \in 1..NBars : Ge(result.turnover[t], Z(0))
        /\ NBars >= 1 =>
              Ge(SumQ(result.turnover, NBars),
                 AbsQ(Sub(result.position[NBars], result.position[1])))

\* a run that goes long, short and flat: the summed turnover exceeds the
\* distance between the first and the last position
C6_Witness ==
    /\ Returned
    /\ NBars >= 3
    /\ Lt(result.position[2], result.position[1])
    /\ Gt(result.position[3], result.position[2])
    /\ Gt(SumQ(result.turnover, NBars),
          AbsQ(Sub(result.position[NBars], result.position[1])))

\* the column is there and at least one of its values is defined
SomeReturnDefined ==
    /\ "RetSimple" \in DOMAIN df
    /\ \E i \in DOMAIN df.RetSimple : df.RetSimple[i] /= NaN

\* C7: run_backtest raises, returning no result and leaving the caller's
\* table and position series unchanged, exactly when the simple-return
\* column is absent or all its values are undefined; otherwise it returns
\* a result.
C7_MissingData ==
    [][(pc = "ready" /\ pc' = "done") =>
          /\ df' = df /\ position' = position
          /\ result'.kind \in {"ValueError", "result"}
          /\ result'.kind = "ValueError" <=> ~SomeReturnDefined
          /\ result'.kind = "result" <=> SomeReturnDefined]_vars

\* a call that raised on a column whose values are all undefined
C7_Witness ==
    /\ pc = "done"
    /\ result.kind = "ValueError"
    /\ "RetSimple" \in DOMAIN df
    /\ Len(df.RetSimple) >= 2
    /\ DOMAIN position /= {}

----------------------------------------------------------------------------
(* Properties of grid_search *)

GsReturned == pc = "done" /\ result.kind = "best"

\* C8: grid_search evaluates every element of the Cartesian product once,
\* in iteration order, and returns a candidate whose CAGR is >= the CAGR
\* of every other candidate (compared with the candidates whose CAGR is
\* defined), the first encountered among those sharing the maximum.
C8_AsStated ==
    GsReturned =>
        /\ [i \in 1..Len(evaluated) |-> evaluated[i].params] = Product(grid)
        /\ \E i \in 1..Len(evaluated) :
              /\ evaluated[i].params = result.params
              /\ evaluated[i].CAGR = result.perf.CAGR
              /\ \A j \in 1..(i - 1) : evaluated[j].CAGR /= result.perf.CAGR
        /\ \A j \in 1..Len(evaluated) :
              ~IsNaN(evaluated[j].CAGR) => Ge(result.perf.CAGR, evaluated[j].CAGR)

SomeValueListEmpty == \E i \in 1..Len(grid) : Len(grid[i]) = 0

\* C9 as stated: grid_search fails with the EmptyGridError (its failed
\* assertion) whenever a parameter has an empty value set and whenever the
\* data window is empty, and with no other error in these two cases.
C9_AsStated ==
    (pc = "done" /\ (SomeValueListEmpty \/ (HasRetSimple(df) /\ Len(df.index) = 0))) =>
        result.kind = "AssertionError"

\* C9 amended: grid_search fails with the EmptyGridError (its failed
\* assertion) exactly when a parameter has an empty value set, whatever
\* the data window; on an empty data window with a non-empty product it
\* fails at the first candidate with the MissingDataError of
\* run_backtest.
C9_EmptyGrid ==
    pc = "done" =>
        /\ result.kind = "AssertionError" <=> SomeValueListEmpty
        /\ (Len(df.index) = 0 /\ ~SomeValueListEmpty) =>
              (result.kind = "ValueError" /\ evaluated = <<>> /\ gs_k = 1)

\* the assertion failed on a window that has defined returns
C9_Witness ==
    /\ pc = "done"
    /\ result.kind = "AssertionError"
    /\ Len(df.index) >= 2
    /\ ~MissingData(df)
    /\ Len(grid[1]) = 2 /\ Len(grid[2]) = 0

----------------------------------------------------------------------------
(* Properties of walk_forward *)

WfReturned == pc = "done" /\ result.kind = "rows"

HasBars == Len(df.index) > 0

\* last timestamp - first timestamp < train_years + test_years
SpanShorterThanTrainPlusTest ==
    /\ HasBars
    /\ IdxMax(df.index) < AddYears(IdxMin(df.index), cfg.train_years + cfg.test_years)

\* C2 as stated: walk_forward returns zero rows whenever the full data
\* span is shorter than train_years + test_years.
C2_AsStated ==
    (WfReturned /\ SpanShorterThanTrainPlusTest) => Len(result.rows) = 0

\* the bars at or after first + train_years and before the last timestamp
BarsAfterFirstTraining ==
    IF HasBars
    THEN Len(Window(df.index, AddYears(IdxMin(df.index), cfg.train_years),
                    IdxMax(df.index)))
    ELSE 0

\* C2 amended: walk_forward returns zero rows, and raises nothing,
\* whenever fewer than 20 bars have a timestamp at or after first +
\* train_years and before the last timestamp, in particular whenever the
\* span is not longer than train_years, for every grid; a span between
\* train_years and train_years + test_years can yield rows, their test
\* window cut at the last timestamp.
C2_ZeroRows ==
    pc = "done" =>
        /\ BarsAfterFirstTraining < 20 =>
              (result.kind = "rows" /\ Len(result.rows) = 0)
        /\ (HasBars /\ IdxMax(df.index) <= AddYears(IdxMin(df.index), cfg.train_years))
              => (result.kind = "rows" /\ Len(result.rows) = 0)

\* no row although the first training window has its 50 bars and some
\* bars, fewer than 20, follow it
C2_Witness ==
    /\ WfReturned
    /\ Len(result.rows) = 0
    /\ HasBars
    /\ Len(TrainWindow(df.index, IdxMin(df.index),
                       AddYears(IdxMin(df.index), cfg.train_years))) >= 50
    /\ BarsAfterFirstTraining > 0
    /\ BarsAfterFirstTraining < 20
    /\ Len(Product(grid)) > 0

InIndex(t) == \E i \in 1..Len(df.index) : df.index[i] = t

\* C3: for every row, grid_search selected the parameters on bars of
\* [train_start, train_end) only, the out-of-sample score uses bars at or
\* after train_end only, every training bar is strictly earlier than
\* every test bar, and the test window starts exactly at train_end: no
\* bar from train_start up to the row's test_end is in neither window.
C3_TrainBeforeTest ==
    \A r \in 1..Len(rows) :
        LET row == rows[r]
        IN  /\ \A i \in 1..Len(row.train) :
                  /\ InIndex(row.train[i])
                  /\ row.train_start <= row.train[i] /\ row.train[i] < row.train_end
                  /\ row.train[i] < row.test[1]
            /\ \A j \in 1..Len(row.test) :
                  /\ InIndex(row.test[j])
                  /\ row.test[j] >= row.train_end
                  /\ row.test[1] <= row.test[j]
            /\ row.train_end = AddYears(row.train_start, cfg.train_years)
            /\ \A i \in 1..Len(df.index) :
                  LET t == df.index[i]
                  IN  /\ (row.train_start <= t /\ t < row.train_end)
                          => \E a \in 1..Len(row.train) : row.train[a] = t
                      /\ (row.train_end <= t /\ t < row.test_end)
                          => \E b \in 1..Len(row.test) : row.test[b] = t

\* two rows, the first with a bar on the day before train_end as its last
\* training bar and the bar of train_end as its first test bar
C3_Witness ==
    /\ Len(rows) >= 2
    /\ rows[1].train[Len(rows[1].train)] = rows[1].train_end - 1
    /\ rows[1].test[1] = rows[1].train_end
    /\ Len(rows[1].train) >= 50
    /\ Len(rows[1].test) >= 20

ReferenceConfig == [train_years |-> 3, test_years |-> 1, step_years |-> 1]

\* a bar on every day
Daily == \A i \in 1..(Len(df.index) - 1) : df.index[i + 1] = df.index[i] + 1

\* the last timestamp is ten years after the first, to within a day
TenYears ==
    /\ HasBars
    /\ IdxMax(df.index) - AddYears(IdxMin(df.index), 10) \in {-1, 0, 1}

\* C10: the rows are in ascending order of train_start; with train_years
\* = 3 and test_years = step_years = 1 the test ranges [train_end,
\* test_end) of different rows never overlap, and a ten-year daily series
\* yields exactly 6 or 7 rows.
C10_RowsInOrder ==
    /\ \A i \in 1..(Len(rows) - 1) : rows[i].train_start < rows[i + 1].train_start
    /\ cfg = ReferenceConfig =>
          \A i \in 1..Len(rows) : \A j \in (i + 1)..Len(rows) :
              rows[i].test_end <= rows[j].train_end
    /\ (WfReturned /\ cfg = ReferenceConfig /\ Daily /\ TenYears) =>
          (result.rows = rows /\ Len(result.rows) \in {6, 7})

\* the reference configuration on a ten-year daily series that starts on
\* a leap day: seven rows
C10_Witness ==
    /\ WfReturned
    /\ cfg = ReferenceConfig
    /\ Daily
    /\ TenYears
    /\ IsLeapDay(IdxMin(df.index))
    /\ Len(result.rows) = 7
    /\ result.rows[7].test_end = IdxMax(df.index)

----------------------------------------------------------------------------
(* Properties of permutation_test *)

PtReturned == pc = "done" /\ result.kind = "permutation"

\* the iterations whose shuffled CAGR is >= the true CAGR
ShuffledAtLeastTrue ==
    Cardinality({i \in 1..n_iter : CagrGe(stats[i], result.CAGR_true)})

\* C11: permutation_test returns p_value = (number of iterations whose
\* shuffled CAGR >= the true CAGR, plus 1) / (n_iter + 1); for every
\* n_iter >= 0 the p-value is strictly greater than 0 and at most 1.
C11_PValue ==
    PtReturned =>
        /\ Len(stats) = n_iter
        /\ result.p_value.d > 0
        /\ result.p_value.n * (n_iter + 1) = (ShuffledAtLeastTrue + 1) * result.p_value.d
        /\ Gt(result.p_value, Z(0))
        /\ Le(result.p_value, Z(1))

\* two iterations, neither reaching the true CAGR: the p-value is 1/3
C11_Witness ==
    /\ PtReturned
    /\ n_iter = 2
    /\ ShuffledAtLeastTrue = 0
    /\ result.p_value = Q(1, 3)

\* an iteration of permutation_test has drawn an order
PtDrawn == pc \in {"pt_loop", "done"} /\ df_work /= <<>>

\* the length of block k of a series of n values cut in blocks of b
BlockLen(k, b, n) == Min(b, n - k * b)

\* the values before block j of the drawn order in the shuffled series
RECURSIVE LenBefore(_, _, _, _)
LenBefore(ord, j, b, n) ==
    IF j = 1 THEN 0 ELSE LenBefore(ord, j - 1, b, n) + BlockLen(ord[j - 1], b, n)

Occurrences(s, v) == Cardinality({i \in 1..Len(s) : s[i] = v})

\* C16: in every iteration the shuffled series has the original length n
\* and is the concatenation of all ceil(n / block) contiguous blocks of
\* the original series, each used exactly once, in the drawn order; it
\* holds the same multiset of values as the original, also when the last
\* block is shorter than block.
C16_BlockShuffle ==
    PtDrawn =>
        LET rets     == df.RetSimple
            shuffled == df_work.RetSimple
            n        == Len(rets)
            b        == IF block < 1 THEN 1 ELSE block
            blocks   == IF n % b = 0 THEN n \div b ELSE n \div b + 1
        IN  /\ Len(shuffled) = n
            /\ Len(perm_order) = blocks
            /\ \A k \in 0..(blocks - 1) :
                  Cardinality({j \in 1..blocks : perm_order[j] = k}) = 1
            /\ \A j \in 1..blocks : \A q \in 1..BlockLen(perm_order[j], b, n) :
                  shuffled[LenBefore(perm_order, j, b, n) + q]
                      = rets[perm_order[j] * b + q]
            /\ \A v \in RetVals : Occurrences(shuffled, v) = Occurrences(rets, v)

\* three different returns in blocks of two, the short last block drawn
\* first
C16_Witness ==
    /\ PtDrawn
    /\ Len(df.RetSimple) = 3
    /\ block = 2
    /\ perm_order = <<1, 0>>
    /\ df.RetSimple[1] /= df.RetSimple[2]
    /\ df.RetSimple[2] /= df.RetSimple[3]
    /\ df.RetSimple[1] /= df.RetSimple[3]
    /\ df_work.RetSimple = <<df.RetSimple[3], df.RetSimple[1], df.RetSimple[2]>>

----------------------------------------------------------------------------
(* Properties of bootstrap_ci *)

\* the sampling loop of an iteration is running or has ended
BsInIteration == pc = "bs_draw" \/ (pc \in {"bs_iter", "done"} /\ df_work /= <<>>)

\* a resampled series has been built from boot_parts
BsSampled == pc \in {"bs_iter", "done"} /\ df_work /= <<>>

\* the length of segment k of a series of n values cut in segments of b
SegLen(k, b, n) == Min(b, n - k * b)

\* the values drawn before part j
RECURSIVE DrawnBefore(_, _, _, _)
DrawnBefore(parts, j, b, n) ==
    IF j = 1 THEN 0 ELSE DrawnBefore(parts, j - 1, b, n) + SegLen(parts[j - 1], b, n)

\* on a series of n >= 1 values: at most n draws so far; every part before the last one is a whole
\* segment inside the first n values; after the loop the series has n
\* values, each the value of its segment at its place
ResampleShape ==
    LET rets == df.RetSimple
        n    == Len(rets)
        b    == IF block < 1 THEN 1 ELSE block
        m    == Len(boot_parts)
    IN  /\ (BsInIteration /\ n >= 1) =>
                            /\ m <= n
                            /\ total_len = DrawnBefore(boot_parts, m + 1, b, n)
                            /\ \A j \in 1..m : boot_parts[j] \in 0..((n - 1) \div b)
                            /\ \A j \in 1..(m - 1) :
                                  DrawnBefore(boot_parts, j, b, n)
                                      + SegLen(boot_parts[j], b, n) < n
        /\ (BsSampled /\ n >= 1) =>
                        /\ m >= 1
                        /\ Len(df_work.RetSimple) = n
                        /\ DrawnBefore(boot_parts, m, b, n) < n
                        /\ \A j \in 1..m : \A q \in 1..SegLen(boot_parts[j], b, n) :
                              DrawnBefore(boot_parts, j, b, n) + q <= n =>
                                  df_work.RetSimple[DrawnBefore(boot_parts, j, b, n) + q]
                                      = rets[boot_parts[j] * b + q]

\* C17: in every iteration of bootstrap_ci on a series of length n >= 1
\* the sampling loop terminates after at most n draws, the resampled
\* series has exactly length n, and it is a concatenation of whole
\* original segments drawn with replacement in which only the last drawn
\* segment may be cut short.
C17_Resample ==
    /\ []ResampleShape
    /\ (pc = "bs_draw") ~> (pc /= "bs_draw" \/ total_len >= Len(df.RetSimple))

\* three values in segments of two: the whole first segment drawn twice,
\* the second one cut to one value
C17_Witness ==
    /\ BsSampled
    /\ Len(df.RetSimple) = 3
    /\ block = 2
    /\ boot_parts = <<0, 0>>
    /\ total_len = 4
    /\ df.RetSimple[1] /= df.RetSimple[2]
    /\ df_work.RetSimple = <<df.RetSimple[1], df.RetSimple[2], df.RetSimple[1]>>

----------------------------------------------------------------------------
(* Properties of the four protocols together *)

\* C12: grid_search, walk_forward, permutation_test and bootstrap_ci leave
\* the caller's table unchanged: no step of any of them changes a column
\* value (in particular RetSimple) or the index, so after the return the
\* table is what it was before the call; the resampled returns are put in
\* a copy.
C12_ReadOnly == [][df' = df]_vars

\* permutation_test has returned after two iterations whose last one
\* backtested a copy with returns in another order than the caller's
C12_Witness ==
    /\ PtReturned
    /\ n_iter = 2
    /\ df_work.index = df.index
    /\ df_work.RetSimple /= df.RetSimple
    /\ perm_order = <<1, 0>>

----------------------------------------------------------------------------
(* Properties of compute_performance *)

CpRunning == pc = "cp_scan" \/ (pc = "done" /\ result.kind = "performance")

CpReturned == pc = "done" /\ result.kind = "performance"

\* every value of the curve given is defined and strictly positive
AllPositive == \A i \in 1..Len(pf_equity) : Gt(pf_equity[i], Z(0))

\* the drawdown series of the call
DdSeries == drawdown(dropna(pf_equity))

PeakRatio(t) == Div(pf_equity[t], cummax(pf_equity)[t])

\* the ratios that the subtraction of 1.0 rounds to -1: those of at most
\* half the distance between -1 and the next float
RoundsToMinusOne(q) == Le(q, Q(1, TwoTo(MantissaBits + 1)))

DdFlags == [t \in 1..Len(DdSeries) |-> dd_is(DdSeries[t])]

\* the length of the longest run of consecutive flagged bars among the
\* first k
LongestRun(flags, k) ==
    LET runs == {<<a, b>> \in (1..k) \X (1..k) :
                    a <= b /\ \A t \in a..b : flags[t]}
    IN  IF runs = {} THEN 0
        ELSE LET r == CHOOSE r \in runs :
                          \A o \in runs : o[2] - o[1] <= r[2] - r[1]
             IN  r[2] - r[1] + 1

\* C14: the max drawdown duration of compute_performance is the length of
\* the longest run of consecutive bars whose drawdown is non-zero; the
\* running counter returns to 0 at every bar whose drawdown is exactly 0,
\* and the reported value never decreases while the bars are scanned.
C14_MaxDdDays ==
    /\ [](CpRunning => max_dd_days = LongestRun(DdFlags, scan_i))
    /\ [](CpReturned => /\ scan_i = Len(DdSeries)
                        /\ result.MaxDD_Days = LongestRun(DdFlags, Len(DdSeries)))
    /\ [][(pc = "cp_scan" /\ scan_i' = scan_i + 1) =>
              /\ max_dd_days' >= max_dd_days
              /\ DdSeries[scan_i'] = Z(0) => dd_cur' = 0
              /\ DdSeries[scan_i'] /= Z(0) => dd_cur' = dd_cur + 1]_vars

\* two drawdowns of one bar each with a new peak between them: the
\* duration is 1, not the number of bars in drawdown
C14_Witness ==
    /\ CpReturned
    /\ Len(DdSeries) = 4
    /\ DdFlags = <<FALSE, TRUE, FALSE, TRUE>>
    /\ result.MaxDD_Days = 1
    /\ dd_cur = 1

----------------------------------------------------------------------------
(* Properties of the steps of walk_forward *)

\* the bars of the table from a up to, not including, b
BarsIn(a, b) == Cardinality({i \in 1..Len(df.index) : a <= df.index[i] /\ df.index[i] < b})

\* the step about to be evaluated
StepDue == pc = "wf_loop" /\ wf_i <= Len(train_slices)

StepTrainStart == train_slices[wf_i].start
StepTrainEnd == AddYears(StepTrainStart, cfg.train_years)
StepTestEnd == Min(AddYears(StepTrainEnd, cfg.test_years), IdxMax(df.index))

\* the training window of the step due ends at or after the last timestamp
StepPastEnd == StepTrainEnd >= IdxMax(df.index)

\* the step due has a window below its threshold
StepTooShort ==
    \/ BarsIn(StepTrainStart, StepTrainEnd) < 50
    \/ BarsIn(StepTrainEnd, StepTestEnd) < 20

\* C15: every row has a training window of at least 50 bars and a test
\* window of at least 20 bars; a step that fails either threshold emits
\* no row and raises no error, and the steps after it are still evaluated
\* until the first step whose training window end reaches or passes the
\* last timestamp of the data, after which no step is evaluated.
C15_SkipAndStop ==
    /\ [](\A r \in 1..Len(rows) :
              Len(rows[r].train) >= 50 /\ Len(rows[r].test) >= 20)
    /\ [][(StepDue /\ StepPastEnd) =>
              (pc' = "wf_return" /\ rows' = rows /\ wf_i' = wf_i /\ result' = result)]_vars
    /\ [][(StepDue /\ ~StepPastEnd /\ StepTooShort) =>
              (pc' = "wf_loop" /\ rows' = rows /\ wf_i' = wf_i + 1 /\ result' = result)]_vars
    /\ [][(StepDue /\ ~StepPastEnd /\ ~StepTooShort /\ pc' = "wf_loop") =>
              (Len(rows') = Len(rows) + 1 /\ wf_i' = wf_i + 1)]_vars
    /\ [][pc = "wf_return" =>
              (pc' = "done" /\ result' = [kind |-> "rows", rows |-> rows]
                  /\ rows' = rows /\ wf_i' = wf_i)]_vars

\* the first two steps were skipped for a training window of fewer than
\* 50 bars, the later ones gave rows, and the loop stopped at a step whose
\* training window reaches the end of the data
C15_Witness ==
    /\ WfReturned
    /\ Len(result.rows) >= 2
    /\ Len(train_slices) >= 3
    /\ result.rows[1].train_start = train_slices[3].start
    /\ BarsIn(train_slices[2].start, AddYears(train_slices[2].start, cfg.train_years)) < 50
    /\ BarsIn(train_slices[2].start, AddYears(train_slices[2].start, cfg.train_years)) > 0
    /\ wf_i <= Len(train_slices)
    /\ AddYears(train_slices[wf_i].start, cfg.train_years) >= IdxMax(df.index)

\* C19: every test window is the half-open range [train_end,
\* min(test_end, last timestamp of the data)): the final bar of the data
\* is in no test window, and the test_end of a row is an exclusive bound,
\* no scored bar having a timestamp equal to or later than it.
C19_TestWindowBound ==
    \A r \in 1..Len(rows) :
        LET row  == rows[r]
            cut  == Min(AddYears(row.train_end, cfg.test_years), IdxMax(df.index))
            bars == {row.test[j] : j \in 1..Len(row.test)}
        IN  /\ row.test_end = cut
            /\ bars = {df.index[i] : i \in {k \in 1..Len(df.index) :
                          row.train_end <= df.index[k] /\ df.index[k] < cut}}
            /\ IdxMax(df.index) \notin bars
            /\ \A t \in bars : t < row.test_end

\* a row whose test window is cut at the last timestamp: the bar before
\* the final one is scored, the final one is not
C19_Witness ==
    /\ WfReturned
    /\ Len(result.rows) >= 1
    /\ LET row == result.rows[Len(result.rows)]
       IN  /\ AddYears(row.train_end, cfg.test_years) > IdxMax(df.index)
           /\ row.test_end = IdxMax(df.index)
           /\ row.test[Len(row.test)] = df.index[Len(df.index) - 1]

----------------------------------------------------------------------------
(* Properties of ma_cross *)

MaReturned == pc = "done" /\ result.kind = "position"

\* the spread and the two signals of the call
MaSpread ==
    spread_of(df.Close, Get(ma_params, "fast", DefaultFast),
              Get(ma_params, "slow", DefaultSlow))

MaThreshold == Q(Get(ma_params, "neutral_zone", 0), 10000)

BuyAt(t) == ~IsNaN(MaSpread[t]) /\ Gt(MaSpread[t], MaThreshold)

SellAt(t) == ~IsNaN(MaSpread[t]) /\ Lt(MaSpread[t], Sub(Z(0), MaThreshold))

\* the bars of the warm-up: fewer bars than a window needs
WarmUp(t) ==
    t < Get(ma_params, "fast", DefaultFast) \/ t < Get(ma_params, "slow", DefaultSlow)

\* C18: the position is 0 at every bar before the first buy or sell
\* signal, the whole warm-up included; it is +1 at a bar where the spread
\* exceeds the threshold and -1 at a bar where it is below the negated
\* threshold; at a bar with neither signal it is the position of the
\* previous bar; once non-zero it is never 0 again; every value is in
\* {-1, 0, 1}.
C18_CarryForward ==
    MaReturned =>
        LET pos == result.pos
            n   == Len(df.index)
        IN  /\ Len(pos) = n
            /\ \A t \in 1..n : pos[t] \in {Z(-1), Z(0), Z(1)}
            /\ \A t \in 1..n :
                  (\A u \in 1..t : ~BuyAt(u) /\ ~SellAt(u)) => pos[t] = Z(0)
            /\ \A t \in 1..n : WarmUp(t) => pos[t] = Z(0)
            /\ \A t \in 1..n : BuyAt(t) => pos[t] = Z(1)
            /\ \A t \in 1..n : SellAt(t) => pos[t] = Z(-1)
            /\ \A t \in 2..n : (~BuyAt(t) /\ ~SellAt(t)) => pos[t] = pos[t - 1]
            /\ \A t \in 1..n : pos[t] /= Z(0) => \A u \in t..n : pos[u] /= Z(0)

\* flat in the warm-up, long on a buy, still long on a spread inside the
\* neutral zone, short on a sell
C18_Witness ==
    /\ MaReturned
    /\ Len(df.index) = 4
    /\ Get(ma_params, "neutral_zone", 0) > 0
    /\ WarmUp(1)
    /\ BuyAt(2)
    /\ ~BuyAt(3) /\ ~SellAt(3) /\ ~IsNaN(MaSpread[3]) /\ MaSpread[3] /= Z(0)
    /\ SellAt(4)
    /\ result.pos = <<Z(0), Z(1), Z(1), Z(-1)>>

====
